---- MODULE Spec2Model ----
(* Model of analyze_crate (crates/analyzer/src/analyze/crate_.rs): the      *)
(* validation of the crate directory, the selection of the entry target and *)
(* the worklist traversal of the public module tree.                        *)
EXTENDS Integers, Sequences, FiniteSets, TLC

(* ------------------------------------------------------------------------ *)
(* Bounds of the explored inputs.                                           *)
(* ------------------------------------------------------------------------ *)
MaxDepth == 1
MaxFiles == 2
MaxDecls == 2
MaxTargets == 2

Names == {"a", "b"}
DirNames == {"a"}
EntryStem == "lib"
DeclNames == Names \cup {EntryStem}
Version == "0.1.0"

(* ------------------------------------------------------------------------ *)
(* Paths: a sequence of components, a component is <<stem, extension>>.     *)
(* ------------------------------------------------------------------------ *)
Comp(s) == <<s, "">>

Join(p, s) == Append(p, Comp(s))

JoinFile(p, stem, ext) == Append(p, <<stem, ext>>)

WithExtension(p, ext) == [p EXCEPT ![Len(p)] = <<p[Len(p)][1], ext>>]

ParentOf(p) == SubSeq(p, 1, Len(p) - 1)

IsModRs(p) == p[Len(p)] = <<"mod", "rs">>

SrcDir == <<Comp("src")>>
LibRs == JoinFile(SrcDir, EntryStem, "rs")
MainRs == JoinFile(SrcDir, "main", "rs")
OtherRs == JoinFile(Join(SrcDir, "bin"), "other", "rs")

RECURSIVE SeqsUpTo(_, _)
SeqsUpTo(S, n) ==
    IF n = 0 THEN {<<>>}
    ELSE LET shorter == SeqsUpTo(S, n - 1)
         IN  shorter \cup {Append(q, x) : q \in shorter, x \in S}

RECURSIVE SubsetsUpTo(_, _)
SubsetsUpTo(S, n) ==
    IF n = 0 THEN {{}}
    ELSE LET smaller == SubsetsUpTo(S, n - 1)
         IN  smaller \cup {T \cup {x} : T \in smaller, x \in S}

Dirs == {SrcDir \o [i \in 1..Len(q) |-> Comp(q[i])] : q \in SeqsUpTo(DirNames, MaxDepth)}

SubmoduleFiles ==
    {WithExtension(Join(d, n), "rs") : d \in Dirs, n \in Names}
    \cup {JoinFile(Join(d, n), "mod", "rs") : d \in Dirs, n \in Names}

(* ------------------------------------------------------------------------ *)
(* Manifest targets (cargo_metadata::Target): kind, name, src_path.         *)
(* ------------------------------------------------------------------------ *)
LibTarget == [kind |-> {"lib"}, name |-> "my_crate", src_path |-> LibRs]
BinTarget == [kind |-> {"bin"}, name |-> "my_bin", src_path |-> MainRs]
OtherBinTarget == [kind |-> {"bin"}, name |-> "other", src_path |-> OtherRs]
ExampleTarget == [kind |-> {"example"}, name |-> "ex", src_path |-> JoinFile(SrcDir, "ex", "rs")]
TargetChoices == {LibTarget, BinTarget, OtherBinTarget, ExampleTarget}

NoTarget == [kind |-> {}, name |-> "", src_path |-> <<>>]

(* ------------------------------------------------------------------------ *)
(* State.                                                                   *)
(* ------------------------------------------------------------------------ *)
VARIABLES
    path_kind,          \* what the input path names: "missing", "file", "dir"
    cargo_toml_exists,  \* crate_dir/Cargo.toml exists
    metadata,           \* what `cargo metadata` answers for this manifest
    fs,                 \* the source files that exist on disk
    content,            \* the text of each file, as the extractor sees it
    faults,             \* per file: "ok", "io" (unreadable) or "parse" (invalid source)
    pc,                 \* position in analyze_crate
    err,                \* the error returned, "" when none
    root_target,
    root_module,
    result,             \* AnalysisResult
    modules_to_read,    \* worklist of (parent_dir, module_name, parent)
    read_modules,       \* resolved files already visited
    reads,              \* files handed to std::fs::read_to_string, in order
    parsed,             \* files handed to Module::parse, in order
    metadata_calls      \* number of MetadataCommand::exec invocations

env == <<path_kind, cargo_toml_exists, metadata, fs, content, faults>>
prog == <<pc, err, root_target, root_module, result, modules_to_read, read_modules>>
obs == <<reads, parsed, metadata_calls>>
vars == <<path_kind, cargo_toml_exists, metadata, fs, content, faults, pc, err, root_target,
          root_module, result, modules_to_read, read_modules, reads, parsed,
          metadata_calls>>

(* ------------------------------------------------------------------------ *)
(* AnalysisResult::new and the extractor contract.                          *)
(* ------------------------------------------------------------------------ *)
AnalysisResultNew(crate_) ==
    [crate_ |-> crate_, modules |-> <<>>, structs |-> <<>>, enums |-> <<>>,
     functions |-> <<>>]

NoCrate == [name |-> "", version |-> ""]

ItemPaths(prefix, names) == [i \in 1..Len(names) |-> Append(prefix, names[i])]

ModuleParse(file, path, text) ==
    [module |-> [file |-> file, path |-> path, declarations |-> text.declarations],
     structs |-> ItemPaths(path, text.structs),
     enums |-> ItemPaths(path, text.enums),
     functions |-> ItemPaths(path, text.functions)]

(* ------------------------------------------------------------------------ *)
(* Helpers of the traversal.                                                *)
(* ------------------------------------------------------------------------ *)
Contains(s, x) == \E i \in 1..Len(s) : s[i] = x

RemoveAt(s, i) == SubSeq(s, 1, i - 1) \o SubSeq(s, i + 1, Len(s))

Exists(p) == p \in fs

FindTarget(targets, k) ==
    IF \E i \in 1..Len(targets) : k \in targets[i].kind
    THEN LET i == CHOOSE i \in 1..Len(targets) :
                      /\ k \in targets[i].kind
                      /\ \A j \in 1..(i - 1) : k \notin targets[j].kind
         IN  [found |-> TRUE, target |-> targets[i]]
    ELSE [found |-> FALSE, target |-> NoTarget]

\* one pass over the targets: the first that is a library or a binary
SelectRootTargetOnePass(targets) ==
    IF \E i \in 1..Len(targets) : targets[i].kind \cap {"lib", "bin"} # {}
    THEN LET i == CHOOSE i \in 1..Len(targets) :
                      /\ targets[i].kind \cap {"lib", "bin"} # {}
                      /\ \A j \in 1..(i - 1) : targets[j].kind \cap {"lib", "bin"} = {}
         IN  [found |-> TRUE, target |-> targets[i]]
    ELSE [found |-> FALSE, target |-> NoTarget]

SelectRootTarget(targets) ==
    IF FindTarget(targets, "lib").found THEN FindTarget(targets, "lib")
    ELSE FindTarget(targets, "bin")

\* no branch for a name without a file: the sibling file is assumed
ResolveModuleAssumed(parent_dir, module_name) ==
    IF Exists(JoinFile(Join(parent_dir, module_name), "mod", "rs"))
          /\ ~Exists(WithExtension(Join(parent_dir, module_name), "rs"))
    THEN [found |-> TRUE,
          module_path |-> JoinFile(Join(parent_dir, module_name), "mod", "rs"),
          submodule_dir |-> parent_dir]
    ELSE [found |-> TRUE,
          module_path |-> WithExtension(Join(parent_dir, module_name), "rs"),
          submodule_dir |-> Join(parent_dir, module_name)]

\* the two layouts are probed in the other order: mod.rs wins
ResolveModuleModRsFirst(parent_dir, module_name) ==
    IF Exists(JoinFile(Join(parent_dir, module_name), "mod", "rs"))
    THEN [found |-> TRUE,
          module_path |-> JoinFile(Join(parent_dir, module_name), "mod", "rs"),
          submodule_dir |-> parent_dir]
    ELSE IF Exists(WithExtension(Join(parent_dir, module_name), "rs"))
    THEN [found |-> TRUE,
          module_path |-> WithExtension(Join(parent_dir, module_name), "rs"),
          submodule_dir |-> Join(parent_dir, module_name)]
    ELSE [found |-> FALSE, module_path |-> <<>>, submodule_dir |-> <<>>]

ResolveModule(parent_dir, module_name) ==
    IF Exists(WithExtension(Join(parent_dir, module_name), "rs"))
    THEN [found |-> TRUE,
          module_path |-> WithExtension(Join(parent_dir, module_name), "rs"),
          submodule_dir |-> Join(parent_dir, module_name)]
    ELSE IF Exists(JoinFile(Join(parent_dir, module_name), "mod", "rs"))
    THEN [found |-> TRUE,
          module_path |-> JoinFile(Join(parent_dir, module_name), "mod", "rs"),
          submodule_dir |-> parent_dir]
    ELSE [found |-> FALSE, module_path |-> <<>>, submodule_dir |-> <<>>]

\* the prefix of the declaring module is dropped
ModulePathNoParent(parent, module_name) == <<module_name>>

ModulePath(parent, module_name) == Append(parent, module_name)

\* every tuple carries the crate's path, not the declaring module's
PendingUnderCrate(dir, declarations, parent) ==
    [i \in 1..Len(declarations) |->
        [parent_dir |-> dir, module_name |-> declarations[i], parent |-> <<parent[1]>>]]

Pending(dir, declarations, parent) ==
    [i \in 1..Len(declarations) |->
        [parent_dir |-> dir, module_name |-> declarations[i], parent |-> parent]]

\* the items are folded in but the module itself is not pushed
FoldNoModule(res, out) ==
    [res EXCEPT !.structs = @ \o out.structs,
                !.enums = @ \o out.enums,
                !.functions = @ \o out.functions]

\* the new module and items are put in front of the lists
FoldInFront(res, out) ==
    [res EXCEPT !.modules = <<out.module>> \o @,
                !.structs = out.structs \o @,
                !.enums = out.enums \o @,
                !.functions = out.functions \o @]

Fold(res, out) ==
    [res EXCEPT !.modules = Append(@, out.module),
                !.structs = @ \o out.structs,
                !.enums = @ \o out.enums,
                !.functions = @ \o out.functions]

\* a failed read or parse is swallowed and the file taken as valid
ReadOutcomeIgnored(p) == "ok"

\* std::fs::read_to_string followed by Module::parse on file p
ReadOutcome(p) == IF Exists(p) THEN faults[p] ELSE "io"

(* ------------------------------------------------------------------------ *)
(* One iteration of `while let Some(..) = modules_to_read.pop()`, as a      *)
(* function of the traversal state st and the index i of the tuple removed  *)
(* (the code removes the last one).                                         *)
(* ------------------------------------------------------------------------ *)
\* the tuple is looked at but left on the worklist
PopRestKeep(worklist, i) == worklist

PopRest(worklist, i) == RemoveAt(worklist, i)

\* the visited check never fires
AlreadyReadNever(visited, module_path) == FALSE

AlreadyRead(visited, module_path) == Contains(visited, module_path)

LoopIter(st, i) ==
    LET t == st.modules_to_read[i]
        rest == PopRest(st.modules_to_read, i)
        r == ResolveModule(t.parent_dir, t.module_name)
        outcome == ReadOutcome(r.module_path)
    IN  IF ~r.found THEN [st EXCEPT !.modules_to_read = rest]
        ELSE IF AlreadyRead(st.read_modules, r.module_path)
        THEN [st EXCEPT !.modules_to_read = rest]
        ELSE IF outcome = "io"
        THEN [st EXCEPT !.modules_to_read = rest,
                        !.read_modules = Append(@, r.module_path),
                        !.reads = Append(@, r.module_path),
                        !.pc = "error", !.err = "IoError"]
        ELSE IF outcome = "parse"
        THEN [st EXCEPT !.modules_to_read = rest,
                        !.read_modules = Append(@, r.module_path),
                        !.reads = Append(@, r.module_path),
                        !.parsed = Append(@, r.module_path),
                        !.pc = "error", !.err = "ParseError"]
        ELSE LET path == ModulePath(t.parent, t.module_name)
                 out == ModuleParse(r.module_path, path, content[r.module_path])
             IN  [st EXCEPT !.modules_to_read =
                                rest \o Pending(r.submodule_dir,
                                                out.module.declarations, path),
                            !.read_modules = Append(@, r.module_path),
                            !.reads = Append(@, r.module_path),
                            !.parsed = Append(@, r.module_path),
                            !.result = Fold(@, out)]

\* the existence check of the entry file is skipped
RootModuleExistsAlways == TRUE

RootModuleExists == Exists(root_module)

\* the worklist is seeded with the package directory, not the entry file's
SeedWorklistCrateDir(dir, declarations, crate_name) ==
    Pending(ParentOf(dir), declarations, <<crate_name>>)

SeedWorklist(dir, declarations, crate_name) == Pending(dir, declarations, <<crate_name>>)

(* The top-level module: existence check, read, parse, seed of the worklist. *)
RootIter(st) ==
    LET outcome == ReadOutcome(root_module)
    IN  IF ~RootModuleExists THEN [st EXCEPT !.pc = "done"]
        ELSE IF outcome = "io"
        THEN [st EXCEPT !.reads = Append(@, root_module),
                        !.pc = "error", !.err = "IoError"]
        ELSE IF outcome = "parse"
        THEN [st EXCEPT !.reads = Append(@, root_module),
                        !.parsed = Append(@, root_module),
                        !.pc = "error", !.err = "ParseError"]
        ELSE LET out == ModuleParse(root_module, <<st.result.crate_.name>>,
                                    content[root_module])
             IN  [st EXCEPT !.modules_to_read =
                                SeedWorklist(ParentOf(root_module),
                                             out.module.declarations,
                                             st.result.crate_.name),
                            !.reads = Append(@, root_module),
                            !.parsed = Append(@, root_module),
                            !.result = Fold(@, out),
                            !.pc = "loop"]

Traversal ==
    [pc |-> pc, err |-> err, result |-> result,
     modules_to_read |-> modules_to_read, read_modules |-> read_modules,
     reads |-> reads, parsed |-> parsed]

SetTraversal(st) ==
    /\ pc' = st.pc
    /\ err' = st.err
    /\ result' = st.result
    /\ modules_to_read' = st.modules_to_read
    /\ read_modules' = st.read_modules
    /\ reads' = st.reads
    /\ parsed' = st.parsed

(* ------------------------------------------------------------------------ *)
(* Inputs.                                                                  *)
(* ------------------------------------------------------------------------ *)
Text(f, d) ==
    [declarations |-> d,
     structs |-> IF IsModRs(f) THEN <<>> ELSE <<"S">>,
     enums |-> IF IsModRs(f) THEN <<>> ELSE <<"E">>,
     functions |-> IF IsModRs(f) THEN <<"f">> ELSE <<>>]

MetadataChoices ==
    {[ok |-> FALSE, root_package |-> FALSE, targets |-> <<>>, version |-> Version],
     [ok |-> TRUE, root_package |-> FALSE, targets |-> <<>>, version |-> Version]}
    \cup {[ok |-> TRUE, root_package |-> TRUE, targets |-> ts, version |-> Version] :
             ts \in SeqsUpTo(TargetChoices, MaxTargets)}

LibMetadata ==
    [ok |-> TRUE, root_package |-> TRUE, targets |-> <<LibTarget>>, version |-> Version]

EntryFiles == {LibRs, MainRs, OtherRs}

ARs == WithExtension(Join(SrcDir, "a"), "rs")

TopFiles == {f \in SubmoduleFiles : Len(f) <= 3}

NestedFiles == {WithExtension(Join(Join(SrcDir, "a"), n), "rs") : n \in Names}

\* a package with a library target whose sources vary and are all readable:
\* the entry file declares d0 (possibly a submodule named like itself), every
\* other file declares d1
TraversalInputs ==
    /\ path_kind = "dir"
    /\ cargo_toml_exists = TRUE
    /\ metadata = LibMetadata
    /\ \E others \in SubsetsUpTo(SubmoduleFiles, MaxFiles) :
          /\ fs = {LibRs} \cup others
          /\ \E d0 \in SeqsUpTo(DeclNames, MaxDecls), d1 \in SeqsUpTo(Names, MaxDecls) :
                content = [f \in fs |-> Text(f, IF f = LibRs THEN d0 ELSE d1)]
          /\ faults = [f \in fs |-> "ok"]

\* a package with a library target all of whose files declare the same
\* submodules: declarations that are cyclic, duplicated or without a file
UniformInputs ==
    /\ path_kind = "dir"
    /\ cargo_toml_exists = TRUE
    /\ metadata = LibMetadata
    /\ \E others \in SubsetsUpTo(TopFiles \cup NestedFiles, MaxFiles) :
          /\ fs = {LibRs} \cup others
          /\ \E d \in SeqsUpTo(DeclNames, MaxDecls) : content = [f \in fs |-> Text(f, d)]
          /\ faults = [f \in fs |-> "ok"]

\* a package with a library target one of whose sources cannot be read or parsed
FaultInputs ==
    /\ path_kind = "dir"
    /\ cargo_toml_exists = TRUE
    /\ metadata = LibMetadata
    /\ \E others \in SubsetsUpTo(TopFiles, MaxFiles) :
          /\ fs = {LibRs} \cup others
          /\ \E d \in SeqsUpTo(Names, MaxDecls) : content = [f \in fs |-> Text(f, d)]
          /\ \E bad \in fs, kind \in {"io", "parse"} :
                faults = [f \in fs |-> IF f = bad THEN kind ELSE "ok"]

\* the file of the i-th module of the chain q: src/q1/../q(i-1)/qi.rs, and
\* the entry file for i = 0
ChainFile(q, i) ==
    IF i = 0 THEN LibRs
    ELSE WithExtension(SrcDir \o [j \in 1..i |-> Comp(q[j])], "rs")

ChainDeclarations(q, i) == IF i < Len(q) THEN <<q[i + 1]>> ELSE <<>>

ChainLevel(q, f) == CHOOSE i \in 0..Len(q) : ChainFile(q, i) = f

\* a package with a library target whose modules form a chain in the
\* sibling-file layout, as my_crate of test_analyze_crate does
ChainInputs ==
    /\ path_kind = "dir"
    /\ cargo_toml_exists = TRUE
    /\ metadata = LibMetadata
    /\ \E q \in SeqsUpTo(Names, MaxDepth + 1) :
          /\ fs = {ChainFile(q, i) : i \in 0..Len(q)}
          /\ content = [f \in fs |-> Text(f, ChainDeclarations(q, ChainLevel(q, f)))]
          /\ faults = [f \in fs |-> "ok"]

\* a package with a library target whose entry file declares several
\* submodules, each in its own sibling file declaring one child, and some of
\* the children on disk
ForkInputs ==
    /\ path_kind = "dir"
    /\ cargo_toml_exists = TRUE
    /\ metadata = LibMetadata
    /\ \E d0 \in SeqsUpTo(Names, MaxDecls), child \in Names :
          LET tops == {WithExtension(Join(SrcDir, d0[i]), "rs") : i \in 1..Len(d0)}
              kids == {WithExtension(Join(Join(SrcDir, d0[i]), child), "rs") :
                          i \in 1..Len(d0)}
          IN  /\ Len(d0) >= 2
              /\ \E nested \in SUBSET kids :
                    /\ fs = {LibRs} \cup tops \cup nested
                    /\ content = [f \in fs |->
                                    Text(f, IF f = LibRs THEN d0
                                            ELSE IF f \in tops THEN <<child>>
                                            ELSE <<>>)]
          /\ faults = [f \in fs |-> "ok"]

\* a package whose directory, manifest and targets vary
FrontEndInputs ==
    /\ path_kind \in {"missing", "file", "dir"}
    /\ cargo_toml_exists \in (IF path_kind = "dir" THEN BOOLEAN ELSE {FALSE})
    /\ metadata \in MetadataChoices
    /\ \E files \in {{}, {ARs}, {MainRs, ARs}, EntryFiles \cup {ARs}} :
          /\ fs = files
          /\ content = [f \in fs |-> Text(f, IF f \in EntryFiles THEN <<"a">> ELSE <<>>)]
          /\ faults = [f \in fs |-> "ok"]

\* analyze_crate is entered: nothing is resolved, read or accumulated yet
Entered ==
    /\ pc = "start"
    /\ err = ""
    /\ root_target = NoTarget
    /\ root_module = <<>>
    /\ result = AnalysisResultNew(NoCrate)
    /\ modules_to_read = <<>>
    /\ read_modules = <<>>
    /\ reads = <<>>
    /\ parsed = <<>>
    /\ metadata_calls = 0

Init ==
    Entered /\ (TraversalInputs \/ UniformInputs \/ FaultInputs \/ ChainInputs
                \/ ForkInputs \/ FrontEndInputs)

InitUniform == Entered /\ (UniformInputs \/ FaultInputs \/ FrontEndInputs)

(* ------------------------------------------------------------------------ *)
(* analyze_crate, step by step.                                             *)
(* ------------------------------------------------------------------------ *)
Fail(kind) == pc' = "error" /\ err' = kind

\* dunce::canonicalize(path)
Canonicalize ==
    /\ pc = "start"
    /\ IF path_kind = "missing" THEN Fail("PathResolutionError")
       ELSE pc' = "is_dir" /\ err' = err
    /\ UNCHANGED <<env, root_target, root_module, result, modules_to_read,
                   read_modules, obs>>

\* crate_dir.is_dir()
CheckIsDir ==
    /\ pc = "is_dir"
    /\ IF path_kind # "dir" THEN Fail("NotADirectoryError")
       ELSE pc' = "manifest" /\ err' = err
    /\ UNCHANGED <<env, root_target, root_module, result, modules_to_read,
                   read_modules, obs>>

\* the manifest check is skipped
CargoTomlExistsAlways == TRUE

CargoTomlExists == cargo_toml_exists

\* crate_dir.join("Cargo.toml").exists()
CheckManifest ==
    /\ pc = "manifest"
    /\ IF ~CargoTomlExists THEN Fail("ManifestMissingError")
       ELSE pc' = "metadata" /\ err' = err
    /\ UNCHANGED <<env, root_target, root_module, result, modules_to_read,
                   read_modules, obs>>

\* MetadataCommand::exec and root_package()
RunMetadata ==
    /\ pc = "metadata"
    /\ metadata_calls' = metadata_calls + 1
    /\ IF ~cargo_toml_exists \/ ~metadata.ok \/ ~metadata.root_package
       THEN Fail("MetadataError")
       ELSE pc' = "target" /\ err' = err
    /\ UNCHANGED <<env, root_target, root_module, result, modules_to_read,
                   read_modules, reads, parsed>>

\* root_target selection and AnalysisResult::new
SelectTarget ==
    /\ pc = "target"
    /\ LET sel == SelectRootTarget(metadata.targets)
       IN  IF ~sel.found
           THEN /\ Fail("NoEntryTargetError")
                /\ UNCHANGED <<root_target, root_module, result>>
           ELSE /\ root_target' = sel.target
                /\ root_module' = sel.target.src_path
                /\ result' = AnalysisResultNew([name |-> sel.target.name,
                                                version |-> metadata.version])
                /\ pc' = "root"
                /\ err' = err
    /\ UNCHANGED <<env, modules_to_read, read_modules, obs>>

\* the existence check, read and parse of the top-level module, and the seed
ReadRoot ==
    /\ pc = "root"
    /\ SetTraversal(RootIter(Traversal))
    /\ UNCHANGED <<env, root_target, root_module, metadata_calls>>

\* the worklist is taken from the front, as a queue
LoopStepFifo ==
    /\ pc = "loop"
    /\ modules_to_read # <<>>
    /\ SetTraversal(LoopIter(Traversal, 1))
    /\ UNCHANGED <<env, root_target, root_module, metadata_calls>>

\* one iteration of the traversal loop: the last tuple is popped
LoopStep ==
    /\ pc = "loop"
    /\ modules_to_read # <<>>
    /\ SetTraversal(LoopIter(Traversal, Len(modules_to_read)))
    /\ UNCHANGED <<env, root_target, root_module, metadata_calls>>

\* the worklist is empty: Ok(result)
Return ==
    /\ pc = "loop"
    /\ modules_to_read = <<>>
    /\ pc' = "done"
    /\ UNCHANGED <<env, err, root_target, root_module, result, modules_to_read,
                   read_modules, obs>>

Next ==
    \/ Canonicalize
    \/ CheckIsDir
    \/ CheckManifest
    \/ RunMetadata
    \/ SelectTarget
    \/ ReadRoot
    \/ LoopStep
    \/ Return

Spec == Init /\ [][Next]_vars

\* the run is never suspended: a step that can be taken is taken
FairSpec == InitUniform /\ [][Next]_vars /\ WF_vars(Next)

\* the traversal under an arbitrary removal policy: any pending tuple is taken
LoopStepAny ==
    /\ pc = "loop"
    /\ modules_to_read # <<>>
    /\ \E i \in 1..Len(modules_to_read) : SetTraversal(LoopIter(Traversal, i))
    /\ UNCHANGED <<env, root_target, root_module, metadata_calls>>

NextAny ==
    \/ Canonicalize
    \/ CheckIsDir
    \/ CheckManifest
    \/ RunMetadata
    \/ SelectTarget
    \/ ReadRoot
    \/ LoopStepAny
    \/ Return

SpecAnyOrder == Init /\ [][NextAny]_vars

\* the whole traversal under the code's policy (pop the last tuple), from st
RECURSIVE RunLifo(_)
RunLifo(st) ==
    IF st.pc # "loop" THEN st
    ELSE IF st.modules_to_read = <<>> THEN [st EXCEPT !.pc = "done"]
    ELSE RunLifo(LoopIter(st, Len(st.modules_to_read)))

(* ------------------------------------------------------------------------ *)
(* Properties.                                                              *)
(* ------------------------------------------------------------------------ *)
Count(q, x) == Cardinality({i \in 1..Len(q) : q[i] = x})

Modules == result.modules

Returned == pc = "done"

Prefix(p) == SubSeq(p, 1, Len(p) - 1)

Last(p) == p[Len(p)]

Items == [i \in 1..Len(result.structs) |-> result.structs[i]]
         \o result.enums \o result.functions

\* C1: no file, the entry file included, is handed to Module::parse more than
\* once in a run.
C1_NoFileParsedTwice == \A f \in fs : Count(parsed, f) <= 1

\* The module tree of the package as the source language lays it out: a
\* declared submodule n of a module whose children live in base is the file
\* base/n.rs or base/n/mod.rs, and its own children live in base/n/.
TreeResolve(base, n) ==
    IF Exists(WithExtension(Join(base, n), "rs"))
    THEN {WithExtension(Join(base, n), "rs")}
    ELSE IF Exists(JoinFile(Join(base, n), "mod", "rs"))
    THEN {JoinFile(Join(base, n), "mod", "rs")}
    ELSE {}

RECURSIVE TreeFiles(_, _)
TreeFiles(file, base) ==
    {file} \cup
    UNION {UNION {TreeFiles(g, Join(base, content[file].declarations[i])) :
                     g \in TreeResolve(base, content[file].declarations[i])} :
              i \in 1..Len(content[file].declarations)}

ModuleTree ==
    IF Exists(root_module) THEN TreeFiles(root_module, ParentOf(root_module)) ELSE {}

\* C2: a successful run returns exactly one Module per file of the module
\* tree, N entries for N files.
C2_OneModulePerTreeFile == Returned => Len(Modules) = Cardinality(ModuleTree)

\* C3: the submodules declared by a file resolved as base/<name>/mod.rs are
\* pending with base directory base/<name>/, the directory of that mod.rs.
C3_ModRsChildrenDir ==
    \A i \in 1..Len(modules_to_read) : \A j \in 1..Len(Modules) :
        (Modules[j].path = modules_to_read[i].parent /\ IsModRs(Modules[j].file))
            => modules_to_read[i].parent_dir = ParentOf(Modules[j].file)

\* C4: every Module other than the root [crate name] extends by exactly one
\* identifier the path of a Module that stands earlier in result.modules.
C4_TreeConsistent ==
    \A i \in 1..Len(Modules) :
        \/ Modules[i].path = <<result.crate_.name>>
        \/ \E j \in 1..(i - 1) :
              /\ Len(Modules[i].path) = Len(Modules[j].path) + 1
              /\ Prefix(Modules[i].path) = Modules[j].path

C4_Witness ==
    /\ Returned
    /\ \E i \in 1..Len(Modules) : Len(Modules[i].path) = 3

\* C5: in the returned result the path prefix of every struct, enum and
\* function is the path of exactly one Module of result.modules.
C5_ItemsOwned ==
    Returned =>
        \A k \in 1..Len(Items) :
            Cardinality({j \in 1..Len(Modules) : Modules[j].path = Prefix(Items[k])}) = 1

C5_Witness ==
    /\ Returned
    /\ Len(result.structs) >= 2
    /\ Len(result.enums) >= 2
    /\ Len(result.functions) >= 1

\* C6: no two Modules of the returned result have the same path.
C6_UniqueModulePaths ==
    Returned =>
        \A i \in 1..Len(Modules) : \A j \in 1..Len(Modules) :
            Modules[i].path = Modules[j].path => i = j

\* a module declares the same resolvable submodule twice, or a file already
\* visited is declared again further down
C6_Witness ==
    /\ Returned
    /\ \E i \in 1..Len(Modules) :
          /\ Len(Modules[i].declarations) = 2
          /\ Modules[i].declarations[1] = Modules[i].declarations[2]
          /\ \E j \in 1..Len(Modules) :
                Modules[j].path = Append(Modules[i].path, Modules[i].declarations[1])
    /\ \E i \in 1..Len(Modules) :
          /\ IsModRs(Modules[i].file)
          /\ Contains(Modules[i].declarations, Last(Modules[i].path))

Range(q) == {q[i] : i \in 1..Len(q)}

ModuleSet(res) == {[path |-> m.path, file |-> m.file] : m \in Range(res.modules)}

\* what the code's last-in-first-out traversal returns for the package at hand
LifoFinal ==
    RunLifo(RootIter([pc |-> "root", err |-> "",
                      result |-> AnalysisResultNew([name |-> root_target.name,
                                                    version |-> metadata.version]),
                      modules_to_read |-> <<>>, read_modules |-> <<>>,
                      reads |-> <<>>, parsed |-> <<>>]))

\* C7: whatever the order in which pending tuples are removed, a successful
\* run ends with the same set of Modules (path and file) and the same sets of
\* structs, enums and functions as the last-in-first-out run.
C7_OrderIndependent ==
    Returned =>
        /\ LifoFinal.pc = "done"
        /\ ModuleSet(result) = ModuleSet(LifoFinal.result)
        /\ Range(result.structs) = Range(LifoFinal.result.structs)
        /\ Range(result.enums) = Range(LifoFinal.result.enums)
        /\ Range(result.functions) = Range(LifoFinal.result.functions)

Finished == pc \in {"done", "error"}

\* C8: once the traversal loop is entered, analyze_crate eventually returns a
\* result or an error, whatever the declarations (cyclic, duplicated, missing).
C8_Terminates == (pc = "loop") ~> Finished

\* a run that returned although the entry file declares itself and a mod.rs
\* file declares a submodule that resolves to that same mod.rs
C8_Witness ==
    /\ Returned
    /\ Len(Modules) >= 1
    /\ Contains(Modules[1].declarations, EntryStem)
    /\ \E i \in 1..Len(Modules) :
          /\ IsModRs(Modules[i].file)
          /\ Contains(Modules[i].declarations, Last(Modules[i].path))

EntryMissing == root_target # NoTarget /\ ~Exists(root_module)

\* C9: with an entry target selected and no entry file on disk, the run
\* succeeds with crate_ name and version set and empty lists; nothing is read
\* or parsed and the traversal is not started.
C9_EntryMissingOk ==
    (EntryMissing /\ pc # "root") =>
        /\ Returned
        /\ err = ""
        /\ result = AnalysisResultNew([name |-> root_target.name,
                                       version |-> metadata.version])
        /\ result.crate_.name # "" /\ result.crate_.version # ""
        /\ reads = <<>> /\ parsed = <<>>
        /\ modules_to_read = <<>> /\ read_modules = <<>>

C9_Witness == EntryMissing /\ Returned /\ fs # {}

NoManifest == path_kind = "dir" /\ ~cargo_toml_exists

\* C10: for an existing directory without Cargo.toml the run fails with the
\* manifest-missing error; the metadata provider is never invoked and no
\* source file is read.
C10_ManifestMissing ==
    NoManifest =>
        /\ metadata_calls = 0 /\ reads = <<>> /\ parsed = <<>>
        /\ ~Returned
        /\ pc \notin {"start", "is_dir", "manifest"}
              => (pc = "error" /\ err = "ManifestMissingError")

C10_Witness ==
    /\ NoManifest /\ pc = "error" /\ err = "ManifestMissingError"
    /\ fs # {} /\ metadata.ok /\ metadata.root_package

Failed == pc = "error" /\ err \in {"IoError", "ParseError"}

\* the file the step hands to read_to_string, when it hands one
ReadsOne == Len(reads') = Len(reads) + 1 /\ SubSeq(reads', 1, Len(reads)) = reads

\* C11: a step that reads a file which cannot be read (or parsed) returns
\* IoError (or ParseError) instead of a result, folds nothing of that file in,
\* and no step follows an error: nothing more is resolved, read or parsed.
C11_FailFast ==
    [][/\ pc # "error"
       /\ (ReadsOne /\ faults[Last(reads')] = "io")
             => /\ pc' = "error" /\ err' = "IoError"
                /\ parsed' = parsed /\ result' = result
       /\ (ReadsOne /\ faults[Last(reads')] = "parse")
             => /\ pc' = "error" /\ err' = "ParseError"
                /\ parsed' = Append(parsed, Last(reads')) /\ result' = result
       /\ (pc' = "done") => (\A i \in 1..Len(reads') : faults[reads'[i]] = "ok")]_vars

\* the traversal failed after a submodule was folded in and with a tuple
\* still pending
C11_Witness ==
    /\ Failed
    /\ Len(Modules) >= 2
    /\ modules_to_read # <<>>
    /\ faults[Last(reads)] # "ok"

\* neither dir/<name>.rs nor dir/<name>/mod.rs is on disk
Unresolvable(dir, name) ==
    /\ ~Exists(WithExtension(Join(dir, name), "rs"))
    /\ ~Exists(JoinFile(Join(dir, name), "mod", "rs"))

Top == modules_to_read[Len(modules_to_read)]

AtLoopHead == pc = "loop" /\ modules_to_read # <<>>

Declares(res, path, name) ==
    \E j \in 1..Len(res.modules) :
        res.modules[j].path = path /\ Contains(res.modules[j].declarations, name)

\* C12: the step that removes a tuple whose name has no file in either layout
\* raises no error, leaves the result and the visited set as they are, only
\* drops that tuple from the worklist and goes on with the loop; the name is
\* still among the declarations of the module that declared it.
C12_UnresolvedSkipped ==
    [][(AtLoopHead /\ Unresolvable(Top.parent_dir, Top.module_name))
          => /\ pc' = "loop" /\ err' = ""
             /\ result' = result
             /\ read_modules' = read_modules
             /\ reads' = reads /\ parsed' = parsed
             /\ modules_to_read' = SubSeq(modules_to_read, 1, Len(modules_to_read) - 1)
             /\ Declares(result', Top.parent, Top.module_name)]_vars

\* the entry file declares two submodules, the last one without a file: it
\* was dropped and the first one was still processed
C12_Witness ==
    /\ Returned
    /\ Len(Modules) >= 2
    /\ Len(Modules[1].declarations) = 2
    /\ Unresolvable(ParentOf(root_module), Modules[1].declarations[2])
    /\ Modules[2].path = Append(Modules[1].path, Modules[1].declarations[1])

\* the package on disk is the chain q and nothing else, every file readable
IsChain(q) ==
    /\ path_kind = "dir" /\ cargo_toml_exists
    /\ metadata = LibMetadata
    /\ Cardinality(fs) = Len(q) + 1
    /\ fs = {ChainFile(q, i) : i \in 0..Len(q)}
    /\ \A i \in 0..Len(q) :
          /\ content[ChainFile(q, i)].declarations = ChainDeclarations(q, i)
          /\ Len(content[ChainFile(q, i)].structs) = 1
          /\ Len(content[ChainFile(q, i)].enums) = 1
          /\ content[ChainFile(q, i)].functions = <<>>
          /\ faults[ChainFile(q, i)] = "ok"

ChainPath(q, i) == <<LibTarget.name>> \o SubSeq(q, 1, i)

\* what the chain q is expected to give: the i-th entry of modules, structs
\* and enums belongs to the module i - 1 levels below the entry file
ChainResult(q) ==
    [crate_ |-> [name |-> LibTarget.name, version |-> metadata.version],
     modules |-> [i \in 1..(Len(q) + 1) |->
                    [file |-> ChainFile(q, i - 1),
                     path |-> ChainPath(q, i - 1),
                     declarations |-> ChainDeclarations(q, i - 1)]],
     structs |-> [i \in 1..(Len(q) + 1) |->
                    Append(ChainPath(q, i - 1), content[ChainFile(q, i - 1)].structs[1])],
     enums |-> [i \in 1..(Len(q) + 1) |->
                    Append(ChainPath(q, i - 1), content[ChainFile(q, i - 1)].enums[1])],
     functions |-> <<>>]

\* C13: for a package whose modules form a chain in the sibling-file layout
\* the analysis never fails, and what it returns has the modules in chain
\* order, entry file first, with paths [crate], [crate, m1], [crate, m1, m2],
\* each with its own declarations; the structs and the enums in the same
\* module order with path = module path + item name; no function; and the
\* target's name and the package's version in crate_.
C13_ChainResult ==
    (pc = "error" \/ Returned)
        => \A q \in SeqsUpTo(Names, MaxDepth + 1) :
              IsChain(q) => /\ pc # "error"
                            /\ Returned => result = ChainResult(q)

\* a chain of three modules has been analysed
C13_Witness ==
    /\ Returned
    /\ \E q \in SeqsUpTo(Names, MaxDepth + 1) : Len(q) >= 2 /\ IsChain(q)
    /\ Len(Modules) >= 3
    /\ Len(Modules[3].path) = 3

\* positions of the targets of kind k in the manifest's list
OfKind(k) == {i \in 1..Len(metadata.targets) : k \in metadata.targets[i].kind}

Lowest(S) == CHOOSE i \in S : \A j \in S : i <= j

\* C14: the step that selects the entry target takes the first library target
\* of the manifest's list if there is one, even behind binary targets;
\* otherwise the first binary target; and with neither kind in the list it
\* fails with the no-entry-target error and no result is built.
C14_TargetSelection ==
    [][pc = "target"
          => /\ OfKind("lib") # {}
                   => /\ pc' = "root"
                      /\ root_target' = metadata.targets[Lowest(OfKind("lib"))]
             /\ (OfKind("lib") = {} /\ OfKind("bin") # {})
                   => /\ pc' = "root"
                      /\ root_target' = metadata.targets[Lowest(OfKind("bin"))]
             /\ (OfKind("lib") = {} /\ OfKind("bin") = {})
                   => /\ pc' = "error" /\ err' = "NoEntryTargetError"
                      /\ result' = AnalysisResultNew(NoCrate)
             /\ pc' = "root" => /\ root_module' = root_target'.src_path
                                /\ result'.crate_.name = root_target'.name]_vars

\* a library target was selected from behind a binary target
C14_Witness ==
    /\ pc \in {"root", "loop", "done"}
    /\ Len(metadata.targets) >= 2
    /\ "bin" \in metadata.targets[1].kind
    /\ "lib" \in root_target.kind
    /\ root_target = metadata.targets[2]

SiblingFile(dir, name) == WithExtension(Join(dir, name), "rs")

ModRsFile(dir, name) == JoinFile(Join(dir, name), "mod", "rs")

BothLayouts(dir, name) == Exists(SiblingFile(dir, name)) /\ Exists(ModRsFile(dir, name))

\* C15: when both <dir>/<name>.rs and <dir>/<name>/mod.rs exist, the step that
\* removes the tuple of <name> resolves it to <dir>/<name>.rs: that is the
\* file it reads and records as visited (unless it was visited before, and
\* then it reads nothing), and <dir>/<name>/mod.rs is not read by this step.
C15_FirstMatchWins ==
    [][(AtLoopHead /\ BothLayouts(Top.parent_dir, Top.module_name))
          => LET rs == SiblingFile(Top.parent_dir, Top.module_name)
             IN  IF Contains(read_modules, rs)
                 THEN reads' = reads /\ read_modules' = read_modules
                 ELSE /\ reads' = Append(reads, rs)
                      /\ read_modules' = Append(read_modules, rs)
                      /\ pc' # "error" => Last(result'.modules).file = rs]_vars

\* a submodule of the entry file had both files: the .rs one was read, the
\* mod.rs one never
C15_Witness ==
    /\ Returned
    /\ Len(Modules) >= 2
    /\ \E k \in 1..Len(Modules[1].declarations) :
          LET n == Modules[1].declarations[k]
          IN  /\ BothLayouts(ParentOf(root_module), n)
              /\ Contains(reads, SiblingFile(ParentOf(root_module), n))
              /\ Contains(read_modules, SiblingFile(ParentOf(root_module), n))
              /\ ~Contains(reads, ModRsFile(ParentOf(root_module), n))

IsPrefixOf(p, q) == Len(p) <= Len(q) /\ SubSeq(q, 1, Len(p)) = p

\* the last position at which name occurs in declarations (0 if nowhere)
LastPos(declarations, name) ==
    IF Contains(declarations, name)
    THEN CHOOSE i \in 1..Len(declarations) :
            /\ declarations[i] = name
            /\ \A j \in (i + 1)..Len(declarations) : declarations[j] # name
    ELSE 0

\* y and z index two modules that are children of module x, the name of z
\* declared before the name of y
SiblingsOf(res, x, y, z) ==
    /\ res.modules[y].path # res.modules[z].path
    /\ Len(res.modules[y].path) > 1 /\ Len(res.modules[z].path) > 1
    /\ Prefix(res.modules[y].path) = res.modules[x].path
    /\ Prefix(res.modules[z].path) = res.modules[x].path
    /\ LastPos(res.modules[x].declarations, Last(res.modules[z].path))
          < LastPos(res.modules[x].declarations, Last(res.modules[y].path))

\* result.modules is a depth-first listing with the siblings reversed
DepthFirstReversed(res) ==
    \A x, y, z \in 1..Len(res.modules) :
        SiblingsOf(res, x, y, z)
            => /\ y < z
               /\ \A w \in 1..Len(res.modules) :
                     IsPrefixOf(res.modules[y].path, res.modules[w].path) => w < z

\* C16: the worklist is a stack: a step removes its last tuple and puts the
\* declarations of the module it parsed behind the others, in declaration
\* order; so the submodules declared by one module are processed in reverse
\* declaration order, every module below one of them before the next of them,
\* and result.modules lists the modules in the order in which their files
\* were parsed, the entry file first.
C16_Lifo ==
    [][/\ AtLoopHead
          => /\ IsPrefixOf(SubSeq(modules_to_read, 1, Len(modules_to_read) - 1),
                           modules_to_read')
             /\ \A i \in Len(modules_to_read)..Len(modules_to_read') :
                   /\ modules_to_read'[i].parent = Last(result'.modules).path
                   /\ modules_to_read'[i].module_name =
                         Last(result'.modules).declarations[i - Len(modules_to_read) + 1]
       /\ DepthFirstReversed(result')
       /\ pc' # "error" => [i \in 1..Len(result'.modules) |-> result'.modules[i].file] = parsed'
       /\ result'.modules # <<>> => /\ result'.modules[1].file = root_module'
                                   /\ Len(result'.modules[1].path) = 1]_vars

\* the entry file declared two submodules: the one declared last and the
\* module below it come before the one declared first
C16_Witness ==
    /\ Returned
    /\ Len(Modules) >= 4
    /\ Len(Modules[1].declarations) >= 2
    /\ Modules[2].path = <<Modules[1].path[1], Modules[1].declarations[2]>>
    /\ Modules[3].path = Append(Modules[2].path, Modules[2].declarations[1])
    /\ Modules[4].path = <<Modules[1].path[1], Modules[1].declarations[1]>>
    /\ Modules[1].declarations[1] # Modules[1].declarations[2]

\* the file the tuple on top of the worklist resolves to, if any
TopFile ==
    IF Exists(SiblingFile(Top.parent_dir, Top.module_name))
    THEN SiblingFile(Top.parent_dir, Top.module_name)
    ELSE ModRsFile(Top.parent_dir, Top.module_name)

\* the step at this loop head discards its tuple
Discards ==
    /\ AtLoopHead
    /\ \/ Unresolvable(Top.parent_dir, Top.module_name)
       \/ Contains(read_modules, TopFile)

RECURSIVE DeclaredTotal(_)
DeclaredTotal(mods) ==
    IF mods = <<>> THEN 0
    ELSE Len(mods[1].declarations) + DeclaredTotal(SubSeq(mods, 2, Len(mods)))

\* C17: a step of the traversal (the entry file's step or a loop step) leaves
\* result.crate_ as it is and every module, struct, enum and function already
\* listed where it is: each list of the new result starts with the old list;
\* and a step that discards its tuple, the name being unresolved or its file
\* visited, leaves the whole result and the visited set as they are.
C17_AppendOnly ==
    [][/\ pc \in {"root", "loop"}
          => /\ result'.crate_ = result.crate_
             /\ IsPrefixOf(result.modules, result'.modules)
             /\ IsPrefixOf(result.structs, result'.structs)
             /\ IsPrefixOf(result.enums, result'.enums)
             /\ IsPrefixOf(result.functions, result'.functions)
       /\ Discards => result' = result /\ read_modules' = read_modules]_vars

\* several modules were appended and at least one declared name was discarded
C17_Witness ==
    /\ Returned
    /\ Len(Modules) >= 3
    /\ Len(result.structs) >= 2
    /\ Len(result.functions) >= 1
    /\ DeclaredTotal(Modules) > Len(Modules) - 1

\* C18: at every loop head each pending tuple's ancestor path is the path of
\* a module already in result.modules and its name is one of that module's
\* declarations; and so every module of the result but the first has its
\* last path element among the declarations of the module whose path is the
\* rest of its path.
C18_WorklistInvariant ==
    /\ pc = "loop"
          => \A i \in 1..Len(modules_to_read) :
                Declares(result, modules_to_read[i].parent, modules_to_read[i].module_name)
    /\ \A j \in 2..Len(Modules) : Declares(result, Prefix(Modules[j].path), Last(Modules[j].path))

\* tuples of a module below the entry file are pending beside another tuple
C18_Witness ==
    /\ pc = "loop"
    /\ Len(modules_to_read) >= 2
    /\ Len(Modules) >= 2
    /\ Len(Top.parent) >= 2
    /\ Declares(result, Top.parent, Top.module_name)

====
